---- MODULE Spec2Model ----
(***************************************************************************)
(* A model of the ITMO programmes Telegram bot (ITMOTelegramBot and the    *)
(* handler registration in main()).                                        *)
(*                                                                         *)
(* Texts are sequences of Unicode code points, so that str.lower(),        *)
(* substring containment, len() and slicing are computed as Python         *)
(* computes them.  Every string literal below is the literal of the cited  *)
(* source line; the comment gives a Latin transliteration.                 *)
(***************************************************************************)
EXTENDS Integers, Sequences, FiniteSets, TLC

(***************************************************************************)
(* String literals of the source                                           *)
(***************************************************************************)
\* line 46: "<U+1F4DA> Spisok programm"
BtnPrograms ==
  <<128218, 32, 1057, 1087, 1080, 1089, 1086, 1082, 32, 1087, 1088, 1086,
     1075, 1088, 1072, 1084, 1084>>

\* line 47: "<U+1F4D6> Predmety programmy"
BtnSubjects ==
  <<128214, 32, 1055, 1088, 1077, 1076, 1084, 1077, 1090, 1099, 32, 1087,
     1088, 1086, 1075, 1088, 1072, 1084, 1084, 1099>>

\* line 47: "<U+1F3AF> Kompetencii"
BtnCompetencies ==
  <<127919, 32, 1050, 1086, 1084, 1087, 1077, 1090, 1077, 1085, 1094, 1080,
     1080>>

\* line 48: "<U+23F1><U+FE0F> Prodolzhitel'nost'"
BtnDuration ==
  <<9201, 65039, 32, 1055, 1088, 1086, 1076, 1086, 1083, 1078, 1080, 1090,
     1077, 1083, 1100, 1085, 1086, 1089, 1090, 1100>>

\* line 48: "<U+2139><U+FE0F> O programme"
BtnInfo ==
  <<8505, 65039, 32, 1054, 32, 1087, 1088, 1086, 1075, 1088, 1072, 1084,
     1084, 1077>>

\* line 49: "<U+2753> Pomosch'"
BtnHelp ==
  <<10067, 32, 1055, 1086, 1084, 1086, 1097, 1100>>

\* line 57: "<U+1F519> Nazad"
BtnBack ==
  <<128281, 32, 1053, 1072, 1079, 1072, 1076>>

\* line 63: "\n<U+1F44B> Privet, "
welcome_text_1 ==
  <<10, 128075, 32, 1055, 1088, 1080, 1074, 1077, 1090, 44, 32>>

\* line 63: "!\n\n<U+1F916> Ya bot-konsul'tant po magisterskim programmam ITMO v oblasti iskusstvennogo intellekta.\n\n<U+1F4CA> Ya mogu rasskazat' o:\n<U+2022> Dostupnyh programmah\n<U+2022> Uchebnyh planah i predmetah\n<U+2022> Kompetenciyah vypusknikov\n<U+2022> Prodolzhitel'nosti obucheniya\n\nVyberite opciyu iz menyu nizhe <U+1F447>\n        "
welcome_text_2 ==
  <<33, 10, 10, 129302, 32, 1071, 32, 1073, 1086, 1090, 45, 1082, 1086, 1085,
     1089, 1091, 1083, 1100, 1090, 1072, 1085, 1090, 32, 1087, 1086, 32,
     1084, 1072, 1075, 1080, 1089, 1090, 1077, 1088, 1089, 1082, 1080,
     1084, 32, 1087, 1088, 1086, 1075, 1088, 1072, 1084, 1084, 1072, 1084,
     32, 1048, 1058, 1052, 1054, 32, 1074, 32, 1086, 1073, 1083, 1072,
     1089, 1090, 1080, 32, 1080, 1089, 1082, 1091, 1089, 1089, 1090, 1074,
     1077, 1085, 1085, 1086, 1075, 1086, 32, 1080, 1085, 1090, 1077, 1083,
     1083, 1077, 1082, 1090, 1072, 46, 10, 10, 128202, 32, 1071, 32, 1084,
     1086, 1075, 1091, 32, 1088, 1072, 1089, 1089, 1082, 1072, 1079, 1072,
     1090, 1100, 32, 1086, 58, 10, 8226, 32, 1044, 1086, 1089, 1090, 1091,
     1087, 1085, 1099, 1093, 32, 1087, 1088, 1086, 1075, 1088, 1072, 1084,
     1084, 1072, 1093, 10, 8226, 32, 1059, 1095, 1077, 1073, 1085, 1099,
     1093, 32, 1087, 1083, 1072, 1085, 1072, 1093, 32, 1080, 32, 1087,
     1088, 1077, 1076, 1084, 1077, 1090, 1072, 1093, 10, 8226, 32, 1050,
     1086, 1084, 1087, 1077, 1090, 1077, 1085, 1094, 1080, 1103, 1093, 32,
     1074, 1099, 1087, 1091, 1089, 1082, 1085, 1080, 1082, 1086, 1074, 10,
     8226, 32, 1055, 1088, 1086, 1076, 1086, 1083, 1078, 1080, 1090, 1077,
     1083, 1100, 1085, 1086, 1089, 1090, 1080, 32, 1086, 1073, 1091, 1095,
     1077, 1085, 1080, 1103, 10, 10, 1042, 1099, 1073, 1077, 1088, 1080,
     1090, 1077, 32, 1086, 1087, 1094, 1080, 1102, 32, 1080, 1079, 32,
     1084, 1077, 1085, 1102, 32, 1085, 1080, 1078, 1077, 32, 128071, 10,
     32, 32, 32, 32, 32, 32, 32, 32>>

\* line 85: "\n<U+1F4CB> Dostupnye komandy:\n\n/start - Nachat' dialog\n/help - Pomosch'\n/programs - Spisok programm\n/subjects - Predmety programmy\n/competencies - Kompetencii\n/duration - Prodolzhitel'nost' obucheniya\n\nIli ispol'zujte knopki menyu <U+1F447>\n        "
help_text ==
  <<10, 128203, 32, 1044, 1086, 1089, 1090, 1091, 1087, 1085, 1099, 1077, 32,
     1082, 1086, 1084, 1072, 1085, 1076, 1099, 58, 10, 10, 47, 115, 116,
     97, 114, 116, 32, 45, 32, 1053, 1072, 1095, 1072, 1090, 1100, 32,
     1076, 1080, 1072, 1083, 1086, 1075, 10, 47, 104, 101, 108, 112, 32,
     45, 32, 1055, 1086, 1084, 1086, 1097, 1100, 10, 47, 112, 114, 111,
     103, 114, 97, 109, 115, 32, 45, 32, 1057, 1087, 1080, 1089, 1086,
     1082, 32, 1087, 1088, 1086, 1075, 1088, 1072, 1084, 1084, 10, 47, 115,
     117, 98, 106, 101, 99, 116, 115, 32, 45, 32, 1055, 1088, 1077, 1076,
     1084, 1077, 1090, 1099, 32, 1087, 1088, 1086, 1075, 1088, 1072, 1084,
     1084, 1099, 10, 47, 99, 111, 109, 112, 101, 116, 101, 110, 99, 105,
     101, 115, 32, 45, 32, 1050, 1086, 1084, 1087, 1077, 1090, 1077, 1085,
     1094, 1080, 1080, 10, 47, 100, 117, 114, 97, 116, 105, 111, 110, 32,
     45, 32, 1055, 1088, 1086, 1076, 1086, 1083, 1078, 1080, 1090, 1077,
     1083, 1100, 1085, 1086, 1089, 1090, 1100, 32, 1086, 1073, 1091, 1095,
     1077, 1085, 1080, 1103, 10, 10, 1048, 1083, 1080, 32, 1080, 1089,
     1087, 1086, 1083, 1100, 1079, 1091, 1081, 1090, 1077, 32, 1082, 1085,
     1086, 1087, 1082, 1080, 32, 1084, 1077, 1085, 1102, 32, 128071, 10,
     32, 32, 32, 32, 32, 32, 32, 32>>

\* line 103: "<U+1F4DA> spisok programm"
lbl_programs ==
  <<128218, 32, 1089, 1087, 1080, 1089, 1086, 1082, 32, 1087, 1088, 1086,
     1075, 1088, 1072, 1084, 1084>>

\* line 105: "<U+1F4D6> predmety programmy"
lbl_subjects ==
  <<128214, 32, 1087, 1088, 1077, 1076, 1084, 1077, 1090, 1099, 32, 1087,
     1088, 1086, 1075, 1088, 1072, 1084, 1084, 1099>>

\* line 107: "<U+1F3AF> kompetencii"
lbl_competencies ==
  <<127919, 32, 1082, 1086, 1084, 1087, 1077, 1090, 1077, 1085, 1094, 1080,
     1080>>

\* line 109: "<U+23F1><U+FE0F> prodolzhitel'nost'"
lbl_duration ==
  <<9201, 65039, 32, 1087, 1088, 1086, 1076, 1086, 1083, 1078, 1080, 1090,
     1077, 1083, 1100, 1085, 1086, 1089, 1090, 1100>>

\* line 111: "<U+2139><U+FE0F> o programme"
lbl_info ==
  <<8505, 65039, 32, 1086, 32, 1087, 1088, 1086, 1075, 1088, 1072, 1084,
     1084, 1077>>

\* line 113: "<U+2753> pomosch'"
lbl_help ==
  <<10067, 32, 1087, 1086, 1084, 1086, 1097, 1100>>

\* line 115: "<U+1F519> nazad"
lbl_back ==
  <<128281, 32, 1085, 1072, 1079, 1072, 1076>>

\* line 117: "Glavnoe menyu:"
main_menu_text ==
  <<1043, 1083, 1072, 1074, 1085, 1086, 1077, 32, 1084, 1077, 1085, 1102, 58>>

\* line 128: "Informaciya o programmah vremenno nedostupna."
programs_unavailable ==
  <<1048, 1085, 1092, 1086, 1088, 1084, 1072, 1094, 1080, 1103, 32, 1086, 32,
     1087, 1088, 1086, 1075, 1088, 1072, 1084, 1084, 1072, 1093, 32, 1074,
     1088, 1077, 1084, 1077, 1085, 1085, 1086, 32, 1085, 1077, 1076, 1086,
     1089, 1090, 1091, 1087, 1085, 1072, 46>>

\* line 131: "<U+1F393> Dostupnye magisterskie programmy:\n\n"
programs_header ==
  <<127891, 32, 1044, 1086, 1089, 1090, 1091, 1087, 1085, 1099, 1077, 32,
     1084, 1072, 1075, 1080, 1089, 1090, 1077, 1088, 1089, 1082, 1080,
     1077, 32, 1087, 1088, 1086, 1075, 1088, 1072, 1084, 1084, 1099, 58,
     10, 10>>

\* line 133: "<U+2022> "
bullet ==
  <<8226, 32>>

\* line 133: "\n"
NL ==
  <<10>>

\* line 134: "  Kod: "
code_prefix ==
  <<32, 32, 1050, 1086, 1076, 58, 32>>

\* line 134: "N/A"
NA ==
  <<78, 47, 65>>

\* line 135: "  Dlitel'nost': "
duration_prefix ==
  <<32, 32, 1044, 1083, 1080, 1090, 1077, 1083, 1100, 1085, 1086, 1089, 1090,
     1100, 58, 32>>

\* line 135: "Ne ukazana"
not_specified ==
  <<1053, 1077, 32, 1091, 1082, 1072, 1079, 1072, 1085, 1072>>

\* line 135: "\n\n"
NLNL ==
  <<10, 10>>

\* line 143: "Vyberite programmu dlya prosmotra predmetov:"
ask_subjects_text ==
  <<1042, 1099, 1073, 1077, 1088, 1080, 1090, 1077, 32, 1087, 1088, 1086,
     1075, 1088, 1072, 1084, 1084, 1091, 32, 1076, 1083, 1103, 32, 1087,
     1088, 1086, 1089, 1084, 1086, 1090, 1088, 1072, 32, 1087, 1088, 1077,
     1076, 1084, 1077, 1090, 1086, 1074, 58>>

\* line 151: "Vyberite programmu dlya prosmotra kompetencij:"
ask_competencies_text ==
  <<1042, 1099, 1073, 1077, 1088, 1080, 1090, 1077, 32, 1087, 1088, 1086,
     1075, 1088, 1072, 1084, 1084, 1091, 32, 1076, 1083, 1103, 32, 1087,
     1088, 1086, 1089, 1084, 1086, 1090, 1088, 1072, 32, 1082, 1086, 1084,
     1087, 1077, 1090, 1077, 1085, 1094, 1080, 1081, 58>>

\* line 159: "Vyberite programmu dlya podrobnoj informacii:"
ask_info_text ==
  <<1042, 1099, 1073, 1077, 1088, 1080, 1090, 1077, 32, 1087, 1088, 1086,
     1075, 1088, 1072, 1084, 1084, 1091, 32, 1076, 1083, 1103, 32, 1087,
     1086, 1076, 1088, 1086, 1073, 1085, 1086, 1081, 32, 1080, 1085, 1092,
     1086, 1088, 1084, 1072, 1094, 1080, 1080, 58>>

\* line 170: "Programma ne najdena. Vyberite iz spiska:"
not_found_text ==
  <<1055, 1088, 1086, 1075, 1088, 1072, 1084, 1084, 1072, 32, 1085, 1077, 32,
     1085, 1072, 1081, 1076, 1077, 1085, 1072, 46, 32, 1042, 1099, 1073,
     1077, 1088, 1080, 1090, 1077, 32, 1080, 1079, 32, 1089, 1087, 1080,
     1089, 1082, 1072, 58>>

\* line 187: "\n<U+1F4DA> Programma: "
info_1 ==
  <<10, 128218, 32, 1055, 1088, 1086, 1075, 1088, 1072, 1084, 1084, 1072, 58,
     32>>

\* line 187: "\n<U+1F522> Kod: "
info_2 ==
  <<10, 128290, 32, 1050, 1086, 1076, 58, 32>>

\* line 187: "\n<U+23F1><U+FE0F> Prodolzhitel'nost': "
info_3 ==
  <<10, 9201, 65039, 32, 1055, 1088, 1086, 1076, 1086, 1083, 1078, 1080,
     1090, 1077, 1083, 1100, 1085, 1086, 1089, 1090, 1100, 58, 32>>

\* line 187: "\n\n<U+1F4DD> Opisanie:\n"
info_4 ==
  <<10, 10, 128221, 32, 1054, 1087, 1080, 1089, 1072, 1085, 1080, 1077, 58,
     10>>

\* line 187: "\n\n<U+1F4CA> Statistika:\n<U+2022> Disciplin: "
info_5 ==
  <<10, 10, 128202, 32, 1057, 1090, 1072, 1090, 1080, 1089, 1090, 1080, 1082,
     1072, 58, 10, 8226, 32, 1044, 1080, 1089, 1094, 1080, 1087, 1083,
     1080, 1085, 58, 32>>

\* line 187: "\n<U+2022> Kompetencij: "
info_6 ==
  <<10, 8226, 32, 1050, 1086, 1084, 1087, 1077, 1090, 1077, 1085, 1094, 1080,
     1081, 58, 32>>

\* line 187: "\n        "
info_7 ==
  <<10, 32, 32, 32, 32, 32, 32, 32, 32>>

\* line 193: "Opisanie otsutstvuet"
no_description ==
  <<1054, 1087, 1080, 1089, 1072, 1085, 1080, 1077, 32, 1086, 1090, 1089,
     1091, 1090, 1089, 1090, 1074, 1091, 1077, 1090>>

\* line 209: "Predmety dlya programmy '"
subjects_none_1 ==
  <<1055, 1088, 1077, 1076, 1084, 1077, 1090, 1099, 32, 1076, 1083, 1103, 32,
     1087, 1088, 1086, 1075, 1088, 1072, 1084, 1084, 1099, 32, 39>>

\* line 209: "' ne najdeny."
subjects_none_2 ==
  <<39, 32, 1085, 1077, 32, 1085, 1072, 1081, 1076, 1077, 1085, 1099, 46>>

\* line 213: "<U+1F4D6> Predmety programmy '"
subjects_header_1 ==
  <<128214, 32, 1055, 1088, 1077, 1076, 1084, 1077, 1090, 1099, 32, 1087,
     1088, 1086, 1075, 1088, 1072, 1084, 1084, 1099, 32, 39>>

\* line 213: "':\n\n"
subjects_header_2 ==
  <<39, 58, 10, 10>>

\* line 217: "<U+1F393> Semestr "
semester_1 ==
  <<127891, 32, 1057, 1077, 1084, 1077, 1089, 1090, 1088, 32>>

\* line 217: ":\n"
semester_2 ==
  <<58, 10>>

\* line 220: "   <U+2022> "
row_1 ==
  <<32, 32, 32, 8226, 32>>

\* line 220: " ("
row_2 ==
  <<32, 40>>

\* line 220: " kreditov)\n"
row_3 ==
  <<32, 1082, 1088, 1077, 1076, 1080, 1090, 1086, 1074, 41, 10>>

\* line 235: "Kompetencii ne najdeny."
competencies_none ==
  <<1050, 1086, 1084, 1087, 1077, 1090, 1077, 1085, 1094, 1080, 1080, 32,
     1085, 1077, 32, 1085, 1072, 1081, 1076, 1077, 1085, 1099, 46>>

\* line 238: "<U+1F3AF> Kompetencii programmy '"
competencies_header_1 ==
  <<127919, 32, 1050, 1086, 1084, 1087, 1077, 1090, 1077, 1085, 1094, 1080,
     1080, 32, 1087, 1088, 1086, 1075, 1088, 1072, 1084, 1084, 1099, 32,
     39>>

\* line 238: "':\n\n"
competencies_header_2 ==
  <<39, 58, 10, 10>>

\* line 240: ". "
dot_space ==
  <<46, 32>>

\* line 247: "Informaciya o programmah nedostupna."
duration_unavailable ==
  <<1048, 1085, 1092, 1086, 1088, 1084, 1072, 1094, 1080, 1103, 32, 1086, 32,
     1087, 1088, 1086, 1075, 1088, 1072, 1084, 1084, 1072, 1093, 32, 1085,
     1077, 1076, 1086, 1089, 1090, 1091, 1087, 1085, 1072, 46>>

\* line 250: "<U+23F1><U+FE0F> Prodolzhitel'nost' obucheniya:\n\n"
duration_header ==
  <<9201, 65039, 32, 1055, 1088, 1086, 1076, 1086, 1083, 1078, 1080, 1090,
     1077, 1083, 1100, 1085, 1086, 1089, 1090, 1100, 32, 1086, 1073, 1091,
     1095, 1077, 1085, 1080, 1103, 58, 10, 10>>

\* line 252: ": "
colon_space ==
  <<58, 32>>

\* line 252: "2 goda"
two_years ==
  <<50, 32, 1075, 1086, 1076, 1072>>

\* line 267: "privet", "zdravstv", "hello", "hi"
kw_greeting ==
  << <<1087, 1088, 1080, 1074, 1077, 1090>>,
     <<1079, 1076, 1088, 1072, 1074, 1089, 1090, 1074>>,
     <<104, 101, 108, 108, 111>>,
     <<104, 105>> >>

\* line 270: "programm", "program"
kw_program ==
  << <<1087, 1088, 1086, 1075, 1088, 1072, 1084, 1084>>,
     <<112, 114, 111, 103, 114, 97, 109>> >>

\* line 273: "predmet", "disciplin", "kurs"
kw_subject ==
  << <<1087, 1088, 1077, 1076, 1084, 1077, 1090>>,
     <<1076, 1080, 1089, 1094, 1080, 1087, 1083, 1080, 1085>>,
     <<1082, 1091, 1088, 1089>> >>

\* line 276: "kompetenc", "navyk", "umenie"
kw_competency ==
  << <<1082, 1086, 1084, 1087, 1077, 1090, 1077, 1085, 1094>>,
     <<1085, 1072, 1074, 1099, 1082>>,
     <<1091, 1084, 1077, 1085, 1080, 1077>> >>

\* line 279: "dlitel'n", "prodolzhitel'n", "srok"
kw_duration ==
  << <<1076, 1083, 1080, 1090, 1077, 1083, 1100, 1085>>,
     <<1087, 1088, 1086, 1076, 1086, 1083, 1078, 1080, 1090, 1077, 1083, 1100,
       1085>>,
     <<1089, 1088, 1086, 1082>> >>

\* line 268: "<U+1F44B> Privet! Chem mogu pomoch'?"
greeting_reply ==
  <<128075, 32, 1055, 1088, 1080, 1074, 1077, 1090, 33, 32, 1063, 1077, 1084,
     32, 1084, 1086, 1075, 1091, 32, 1087, 1086, 1084, 1086, 1095, 1100,
     63>>

\* line 274: "Vyberite programmu dlya prosmotra predmetov iz menyu <U+1F4D6>"
use_menu_subjects ==
  <<1042, 1099, 1073, 1077, 1088, 1080, 1090, 1077, 32, 1087, 1088, 1086,
     1075, 1088, 1072, 1084, 1084, 1091, 32, 1076, 1083, 1103, 32, 1087,
     1088, 1086, 1089, 1084, 1086, 1090, 1088, 1072, 32, 1087, 1088, 1077,
     1076, 1084, 1077, 1090, 1086, 1074, 32, 1080, 1079, 32, 1084, 1077,
     1085, 1102, 32, 128214>>

\* line 277: "Vyberite programmu dlya prosmotra kompetencij iz menyu <U+1F3AF>"
use_menu_competencies ==
  <<1042, 1099, 1073, 1077, 1088, 1080, 1090, 1077, 32, 1087, 1088, 1086,
     1075, 1088, 1072, 1084, 1084, 1091, 32, 1076, 1083, 1103, 32, 1087,
     1088, 1086, 1089, 1084, 1086, 1090, 1088, 1072, 32, 1082, 1086, 1084,
     1087, 1077, 1090, 1077, 1085, 1094, 1080, 1081, 32, 1080, 1079, 32,
     1084, 1077, 1085, 1102, 32, 127919>>

\* line 282: "Ne sovsem ponyal vash vopros. Ispol'zujte knopki menyu ili napishite /help dlya spravki."
unknown_reply ==
  <<1053, 1077, 32, 1089, 1086, 1074, 1089, 1077, 1084, 32, 1087, 1086, 1085,
     1103, 1083, 32, 1074, 1072, 1096, 32, 1074, 1086, 1087, 1088, 1086,
     1089, 46, 32, 1048, 1089, 1087, 1086, 1083, 1100, 1079, 1091, 1081,
     1090, 1077, 32, 1082, 1085, 1086, 1087, 1082, 1080, 32, 1084, 1077,
     1085, 1102, 32, 1080, 1083, 1080, 32, 1085, 1072, 1087, 1080, 1096,
     1080, 1090, 1077, 32, 47, 104, 101, 108, 112, 32, 1076, 1083, 1103,
     32, 1089, 1087, 1088, 1072, 1074, 1082, 1080, 46>>

\* line 287: "Informaciya o programmah nedostupna."
list_unavailable ==
  <<1048, 1085, 1092, 1086, 1088, 1084, 1072, 1094, 1080, 1103, 32, 1086, 32,
     1087, 1088, 1086, 1075, 1088, 1072, 1084, 1084, 1072, 1093, 32, 1085,
     1077, 1076, 1086, 1089, 1090, 1091, 1087, 1085, 1072, 46>>

\* line 289: "<U+1F393> Dostupnye programmy:\n\n"
list_header ==
  <<127891, 32, 1044, 1086, 1089, 1090, 1091, 1087, 1085, 1099, 1077, 32,
     1087, 1088, 1086, 1075, 1088, 1072, 1084, 1084, 1099, 58, 10, 10>>

\* line 292: "\nVyberite programmu iz menyu dlya podrobnoj informacii."
list_footer ==
  <<10, 1042, 1099, 1073, 1077, 1088, 1080, 1090, 1077, 32, 1087, 1088, 1086,
     1075, 1088, 1072, 1084, 1084, 1091, 32, 1080, 1079, 32, 1084, 1077,
     1085, 1102, 32, 1076, 1083, 1103, 32, 1087, 1086, 1076, 1088, 1086,
     1073, 1085, 1086, 1081, 32, 1080, 1085, 1092, 1086, 1088, 1084, 1072,
     1094, 1080, 1080, 46>>

\* line 298: "Informaciya nedostupna."
dtext_unavailable ==
  <<1048, 1085, 1092, 1086, 1088, 1084, 1072, 1094, 1080, 1103, 32, 1085,
     1077, 1076, 1086, 1089, 1090, 1091, 1087, 1085, 1072, 46>>

\* line 300: "<U+23F1><U+FE0F> Prodolzhitel'nost':\n\n"
dtext_header ==
  <<9201, 65039, 32, 1055, 1088, 1086, 1076, 1086, 1083, 1078, 1080, 1090,
     1077, 1083, 1100, 1085, 1086, 1089, 1090, 1100, 58, 10, 10>>

\* line 308: "Dialog zavershen. Ispol'zujte /start dlya nachala novogo dialoga."
cancel_text ==
  <<1044, 1080, 1072, 1083, 1086, 1075, 32, 1079, 1072, 1074, 1077, 1088,
     1096, 1077, 1085, 46, 32, 1048, 1089, 1087, 1086, 1083, 1100, 1079,
     1091, 1081, 1090, 1077, 32, 47, 115, 116, 97, 114, 116, 32, 1076,
     1083, 1103, 32, 1085, 1072, 1095, 1072, 1083, 1072, 32, 1085, 1086,
     1074, 1086, 1075, 1086, 32, 1076, 1080, 1072, 1083, 1086, 1075, 1072,
     46>>

\* line 330: "Iskusstvennyj intellekt"
RegexAlt1 ==
  <<1048, 1089, 1082, 1091, 1089, 1089, 1090, 1074, 1077, 1085, 1085, 1099,
     1081, 32, 1080, 1085, 1090, 1077, 1083, 1083, 1077, 1082, 1090>>

\* line 330: "AI Product Management"
RegexAlt2 ==
  <<65, 73, 32, 80, 114, 111, 100, 117, 99, 116, 32, 77, 97, 110, 97, 103,
     101, 109, 101, 110, 116>>

\* user.first_name: "Al"
NameAl ==
  <<65, 108>>

\* user.first_name: "Bo"
NameBo ==
  <<66, 111>>

\* free text: "Hi"
TxtHi ==
  <<72, 105>>

\* free text: "xyz"
TxtXyz ==
  <<120, 121, 122>>

\* free text: "Kurs"
TxtKurs ==
  <<1050, 1091, 1088, 1089>>

\* free text: "navyk"
TxtNavyk ==
  <<1085, 1072, 1074, 1099, 1082>>

\* free text: "Srok"
TxtSrok ==
  <<1057, 1088, 1086, 1082>>

\* free text: "Program"
TxtProgram ==
  <<80, 114, 111, 103, 114, 97, 109>>

\* free text: "ai product management"
TxtAiLower ==
  <<97, 105, 32, 112, 114, 111, 100, 117, 99, 116, 32, 109, 97, 110, 97, 103,
     101, 109, 101, 110, 116>>

\* free text: "Product"
TxtProduct ==
  <<80, 114, 111, 100, 117, 99, 116>>

\* program_code: "01.04.02"
Code01 ==
  <<48, 49, 46, 48, 52, 46, 48, 50>>

\* duration: "2 goda"
DurTwo ==
  <<50, 32, 1075, 1086, 1076, 1072>>

\* description: "II"
DescAI ==
  <<1048, 1048>>

\* competency: "ML"
CompML ==
  <<77, 76>>

\* competency: "NLP"
CompNLP ==
  <<78, 76, 80>>

\* subject: "A"
SubjA ==
  <<65>>

\* subject: "B"
SubjB ==
  <<66>>

\* subject: "C"
SubjC ==
  <<67>>

(***************************************************************************)
(* Bounds                                                                  *)
(***************************************************************************)
\* longest rendered subjects text, counted in chunks
MaxChunks == 2

\* how far around a multiple of the chunk size the text lengths range
Slack == 12

\* longest curriculum, in rows, of the curricula given in every row order
MaxRows == 3

(***************************************************************************)
(* Python string operations                                                *)
(***************************************************************************)
\* str.lower() on one code point: Latin A-Z, Cyrillic U+0410-042F and
\* U+0400-040F have a lower-case partner, everything else used here is fixed
LowerChar(c) ==
  IF c \in 65..90 \/ c \in 1040..1071 THEN c + 32
  ELSE IF c \in 1024..1039 THEN c + 80
  ELSE c

\* str.lower()
lower(s) ==
  IF Len(s) = 0 THEN << >> ELSE [i \in 1..Len(s) |-> LowerChar(s[i])]

\* Python's  sub in s
Contains(sub, s) ==
  \E i \in 0..(Len(s) - Len(sub)) : \A j \in 1..Len(sub) : s[i + j] = sub[j]

\* any(word in text for word in words)
AnyIn(words, text) ==
  \E k \in 1..Len(words) : Contains(words[k], text)

\* concatenation of the pieces of an f-string / of += in a loop
RECURSIVE Cat(_)
Cat(ss) ==
  IF Len(ss) = 0 THEN << >> ELSE Head(ss) \o Cat(Tail(ss))

\* str() of a non-negative integer, as an f-string formats it
RECURSIVE Str(_)
Str(n) ==
  IF n < 10 THEN <<48 + n>> ELSE Str(n \div 10) \o <<48 + (n % 10)>>

\* dict.get(key, default) on a record that may lack the key
Get(d, key, default) ==
  IF key \in DOMAIN d THEN d[key] ELSE default

\* message length above which show_program_subjects splits its text
CHUNK == 4000

(***************************************************************************)
(* Datasets the bot can be constructed with                                *)
(***************************************************************************)
Users == {"u1", "u2"}

first_name(u) == IF u = "u1" THEN NameAl ELSE NameBo

\* a full record and a record with the required field only
P_AI ==
  [program_name |-> RegexAlt1, program_code |-> Code01, duration |-> DurTwo,
   description |-> DescAI, curriculum |-> <<SubjA, SubjB, SubjC>>,
   competencies |-> <<CompML, CompNLP>>]

P_PM ==
  [program_name |-> RegexAlt2]

\* load_programs_data: [] when the file is missing, else the JSON list
NoPrograms == << >>

Catalog == <<P_AI, P_PM>>

\* load_curriculum_data: pd.DataFrame() (no columns) when the file is
\* missing, else the table read from the CSV
Columns == {"program", "semester", "subject", "credits"}

NoFrame == [columns |-> {}, rows |-> << >>]

Frame(rows) == [columns |-> Columns, rows |-> rows]

Row(p, sem, subj, cr) ==
  [program |-> p, semester |-> sem, subject |-> subj, credits |-> cr]

\* rows of semesters 2, 1, 1 for the first programme, none for the second
RowsD ==
  <<Row(RegexAlt1, 2, SubjA, 3), Row(RegexAlt1, 1, SubjB, 6),
    Row(RegexAlt1, 1, SubjC, 3)>>

\* a subject name of n characters
Pad(n) == [i \in 1..n |-> 120]

RowsLong(n) == <<Row(RegexAlt2, 1, Pad(n), 12)>>

(***************************************************************************)
(* State                                                                   *)
(***************************************************************************)
VARIABLES
  programs_data,    \* self.programs_data, read-only after __init__
  curriculum_data,  \* self.curriculum_data, read-only after __init__
  conv,             \* ConversationHandler's state of each user's conversation
  user_data,        \* context.user_data['action'] of each user
  out,              \* the replies sent while handling the last update
  last              \* the last update, the callback it reached, its course
                    \* and the value it returned

vars == <<programs_data, curriculum_data, conv, user_data, out, last>>

\* conversation states: no conversation (before /start, after END), CHOOSING
NoConv == "None"

CHOOSING == "CHOOSING"

END == "END"

\* context.user_data without the key 'action'
NoKey == "<no key>"

Kinds == {"subjects", "competencies", "info"}

(***************************************************************************)
(* Replies and keyboards                                                   *)
(***************************************************************************)
NoMarkup == [type |-> "None", keyboard |-> << >>]

ReplyKeyboardRemove == [type |-> "ReplyKeyboardRemove", keyboard |-> << >>]

ReplyKeyboardMarkup(rows) == [type |-> "ReplyKeyboardMarkup", keyboard |-> rows]

\* update.message.reply_text(text, reply_markup=markup)
Reply(text, markup) == [text |-> text, reply_markup |-> markup]

get_main_keyboard ==
  ReplyKeyboardMarkup(<< <<BtnPrograms>>, <<BtnSubjects, BtnCompetencies>>,
                         <<BtnDuration, BtnInfo>>, <<BtnHelp>> >>)

get_programs_keyboard ==
  LET n == Len(programs_data)
      programs == [i \in 1..n |-> programs_data[i].program_name]
      rows == [k \in 1..((n + 1) \div 2) |->
                 SubSeq(programs, 2 * k - 1, IF 2 * k <= n THEN 2 * k ELSE n)]
  IN ReplyKeyboardMarkup(rows \o << <<BtnBack>> >>)

\* what a handler did: the new user_data['action'], the replies in order, the
\* value it returned, the exception it raised ("" for none), the methods run
Res(action, replies, ret, raised, calls) ==
  [out |-> replies, action |-> action, ret |-> ret, raised |-> raised,
   calls |-> calls]

\* the result of a method that called another method as its last statement
Via(name, r) == [r EXCEPT !.calls = <<name>> \o @, !.ret = "None"]

(***************************************************************************)
(* Handlers                                                                *)
(***************************************************************************)
start(ud, name) ==
  Res(ud, <<Reply(Cat(<<welcome_text_1, name, welcome_text_2>>),
                  get_main_keyboard)>>, CHOOSING, "", <<"start">>)

help_command(ud) ==
  Res(ud, <<Reply(help_text, NoMarkup)>>, "None", "", <<"help_command">>)

show_programs(ud) ==
  LET line(p) == Cat(<<bullet, p.program_name, NL,
                       code_prefix, Get(p, "program_code", NA), NL,
                       duration_prefix, Get(p, "duration", not_specified), NLNL>>)
      response == programs_header \o
                  Cat([i \in 1..Len(programs_data) |-> line(programs_data[i])])
  IN IF Len(programs_data) = 0
     THEN Res(ud, <<Reply(programs_unavailable, NoMarkup)>>, "None", "",
              <<"show_programs">>)
     ELSE Res(ud, <<Reply(response, NoMarkup)>>, "None", "", <<"show_programs">>)

ask_program_for_subjects(ud) ==
  Res("subjects", <<Reply(ask_subjects_text, get_programs_keyboard)>>, "None",
      "", <<"ask_program_for_subjects">>)

ask_program_for_competencies(ud) ==
  Res("competencies", <<Reply(ask_competencies_text, get_programs_keyboard)>>,
      "None", "", <<"ask_program_for_competencies">>)

\* mutant: the body pasted from ask_program_for_subjects keeps its kind
ask_program_for_info_pasted(ud) ==
  Res("subjects", <<Reply(ask_info_text, get_programs_keyboard)>>, "None", "",
      <<"ask_program_for_info">>)

ask_program_for_info(ud) ==
  Res("info", <<Reply(ask_info_text, get_programs_keyboard)>>, "None", "",
      <<"ask_program_for_info">>)

show_program_info(ud, program) ==
  LET response ==
        Cat(<<info_1, program.program_name,
              info_2, Get(program, "program_code", NA),
              info_3, Get(program, "duration", not_specified),
              info_4, Get(program, "description", no_description),
              info_5, Str(Len(Get(program, "curriculum", << >>))),
              info_6, Str(Len(Get(program, "competencies", << >>))),
              info_7>>)
  IN Res(ud, <<Reply(response, NoMarkup)>>, "None", "", <<"show_program_info">>)

\* mutant: sorted(..., reverse=True)
RECURSIVE SortedSeq_desc(_)
SortedSeq_desc(S) ==
  IF S = {} THEN << >>
  ELSE LET m == CHOOSE x \in S : \A y \in S : x >= y
       IN <<m>> \o SortedSeq_desc(S \ {m})

\* sorted(subjects_df['semester'].unique())
RECURSIVE SortedSeq(_)
SortedSeq(S) ==
  IF S = {} THEN << >>
  ELSE LET m == CHOOSE x \in S : \A y \in S : x <= y
       IN <<m>> \o SortedSeq(S \ {m})

\* the rows whose 'program' contains program_name (str.contains, na=False)
subjects_df(program_name) ==
  SelectSeq(curriculum_data.rows, LAMBDA r : Contains(program_name, r.program))

\* the text built by the two nested loops
subjects_response(program_name, df) ==
  LET semesters == SortedSeq({df[i].semester : i \in 1..Len(df)})
      row(subject) == Cat(<<row_1, subject.subject, row_2,
                            Str(subject.credits), row_3>>)
      block(semester) ==
        LET sem_subjects == SelectSeq(df, LAMBDA r : r.semester = semester)
        IN Cat(<<semester_1, Str(semester), semester_2>>) \o
           Cat([i \in 1..Len(sem_subjects) |-> row(sem_subjects[i])]) \o NL
  IN Cat(<<subjects_header_1, program_name, subjects_header_2>>) \o
     Cat([k \in 1..Len(semesters) |-> block(semesters[k])])

\* mutant: slices one character short of the step
parts_short(response) ==
  [k \in 1..((Len(response) + CHUNK - 1) \div CHUNK) |->
     SubSeq(response, (k - 1) * CHUNK + 1,
            IF k * CHUNK - 1 <= Len(response) THEN k * CHUNK - 1
            ELSE Len(response))]

\* [response[i:i+4000] for i in range(0, len(response), 4000)]
parts(response) ==
  [k \in 1..((Len(response) + CHUNK - 1) \div CHUNK) |->
     SubSeq(response, (k - 1) * CHUNK + 1,
            IF k * CHUNK <= Len(response) THEN k * CHUNK ELSE Len(response))]

\* the messages the final if/else of show_program_subjects sends
chunked(response) ==
  IF Len(response) > CHUNK
  THEN [k \in 1..Len(parts(response)) |-> Reply(parts(response)[k], NoMarkup)]
  ELSE <<Reply(response, NoMarkup)>>

show_program_subjects(ud, program) ==
  LET program_name == program.program_name
      df == subjects_df(program_name)
  IN IF "program" \notin curriculum_data.columns
     THEN Res(ud, << >>, "None", "KeyError", <<"show_program_subjects">>)
     ELSE IF Len(df) = 0
     THEN Res(ud, <<Reply(Cat(<<subjects_none_1, program_name, subjects_none_2>>),
                          NoMarkup)>>, "None", "", <<"show_program_subjects">>)
     ELSE Res(ud, chunked(subjects_response(program_name, df)), "None", "",
              <<"show_program_subjects">>)

show_program_competencies(ud, program) ==
  LET competencies == Get(program, "competencies", << >>)
      response ==
        Cat(<<competencies_header_1, program.program_name, competencies_header_2>>)
        \o Cat([i \in 1..Len(competencies) |->
                  Cat(<<Str(i), dot_space, competencies[i], NL>>)])
  IN IF Len(competencies) = 0
     THEN Res(ud, <<Reply(competencies_none, NoMarkup)>>, "None", "",
              <<"show_program_competencies">>)
     ELSE Res(ud, <<Reply(response, NoMarkup)>>, "None", "",
              <<"show_program_competencies">>)

show_duration(ud) ==
  LET response == duration_header \o
        Cat([i \in 1..Len(programs_data) |->
               Cat(<<bullet, programs_data[i].program_name, colon_space,
                     Get(programs_data[i], "duration", two_years), NL>>)])
  IN IF Len(programs_data) = 0
     THEN Res(ud, <<Reply(duration_unavailable, NoMarkup)>>, "None", "",
              <<"show_duration">>)
     ELSE Res(ud, <<Reply(response, NoMarkup)>>, "None", "", <<"show_duration">>)

\* mutant: the last match, the loop not left at the first one
find_program_last(program_name) ==
  LET hits == {i \in 1..Len(programs_data) :
                 Contains(lower(program_name),
                          lower(programs_data[i].program_name))}
  IN IF hits = {} THEN 0 ELSE CHOOSE i \in hits : \A j \in hits : i >= j

\* the index in programs_data of the first match, 0 for None
find_program(program_name) ==
  LET hits == {i \in 1..Len(programs_data) :
                 Contains(lower(program_name),
                          lower(programs_data[i].program_name))}
  IN IF hits = {} THEN 0 ELSE CHOOSE i \in hits : \A j \in hits : i <= j

get_programs_list_text ==
  IF Len(programs_data) = 0 THEN list_unavailable
  ELSE list_header \o
       Cat([i \in 1..Len(programs_data) |->
              Cat(<<bullet, programs_data[i].program_name, NL>>)]) \o
       list_footer

get_duration_text ==
  IF Len(programs_data) = 0 THEN dtext_unavailable
  ELSE dtext_header \o
       Cat([i \in 1..Len(programs_data) |->
              Cat(<<bullet, programs_data[i].program_name, colon_space,
                    Get(programs_data[i], "duration", two_years), NL>>)])

\* mutant: the programme rule tested before the greeting rule
classify_program_first(text) ==
  LET text_lower == lower(text)
  IN IF AnyIn(kw_program, text_lower) THEN 2
     ELSE IF AnyIn(kw_greeting, text_lower) THEN 1
     ELSE IF AnyIn(kw_subject, text_lower) THEN 3
     ELSE IF AnyIn(kw_competency, text_lower) THEN 4
     ELSE IF AnyIn(kw_duration, text_lower) THEN 5
     ELSE 0

\* the rule that answers: 1 greeting, 2 program, 3 subject, 4 competency,
\* 5 duration, 0 when none matches
classify(text) ==
  LET text_lower == lower(text)
  IN IF AnyIn(kw_greeting, text_lower) THEN 1
     ELSE IF AnyIn(kw_program, text_lower) THEN 2
     ELSE IF AnyIn(kw_subject, text_lower) THEN 3
     ELSE IF AnyIn(kw_competency, text_lower) THEN 4
     ELSE IF AnyIn(kw_duration, text_lower) THEN 5
     ELSE 0

auto_detect_response(text) ==
  CASE classify(text) = 1 -> greeting_reply
    [] classify(text) = 2 -> get_programs_list_text
    [] classify(text) = 3 -> use_menu_subjects
    [] classify(text) = 4 -> use_menu_competencies
    [] classify(text) = 5 -> get_duration_text
    [] OTHER -> unknown_reply

\* mutant: a typed subjects or competencies request opens the selection, as
\* the menu label does
handle_message_autoskip(ud, message_text) ==
  LET text == lower(message_text)
  IN IF text = lbl_programs THEN Via("handle_message", show_programs(ud))
     ELSE IF text = lbl_subjects
     THEN Via("handle_message", ask_program_for_subjects(ud))
     ELSE IF text = lbl_competencies
     THEN Via("handle_message", ask_program_for_competencies(ud))
     ELSE IF text = lbl_duration THEN Via("handle_message", show_duration(ud))
     ELSE IF text = lbl_info THEN Via("handle_message", ask_program_for_info(ud))
     ELSE IF text = lbl_help THEN Via("handle_message", help_command(ud))
     ELSE IF text = lbl_back
     THEN Res(ud, <<Reply(main_menu_text, get_main_keyboard)>>, "None", "",
              <<"handle_message">>)
     ELSE Res(IF classify(text) = 3 THEN "subjects"
              ELSE IF classify(text) = 4 THEN "competencies" ELSE ud,
              <<Reply(auto_detect_response(text), NoMarkup)>>, "None", "",
              <<"handle_message", "auto_detect_response">>)

\* mutant: the keyword classification tried before the menu labels
handle_message_classify_first(ud, message_text) ==
  LET text == lower(message_text)
  IN IF classify(text) # 0
     THEN Res(ud, <<Reply(auto_detect_response(text), NoMarkup)>>, "None", "",
              <<"handle_message", "auto_detect_response">>)
     ELSE IF text = lbl_programs THEN Via("handle_message", show_programs(ud))
     ELSE IF text = lbl_subjects
     THEN Via("handle_message", ask_program_for_subjects(ud))
     ELSE IF text = lbl_competencies
     THEN Via("handle_message", ask_program_for_competencies(ud))
     ELSE IF text = lbl_duration THEN Via("handle_message", show_duration(ud))
     ELSE IF text = lbl_info THEN Via("handle_message", ask_program_for_info(ud))
     ELSE IF text = lbl_help THEN Via("handle_message", help_command(ud))
     ELSE IF text = lbl_back
     THEN Res(ud, <<Reply(main_menu_text, get_main_keyboard)>>, "None", "",
              <<"handle_message">>)
     ELSE Res(ud, <<Reply(auto_detect_response(text), NoMarkup)>>, "None", "",
              <<"handle_message", "auto_detect_response">>)

\* mutant: a text no rule matches is dropped without a reply
handle_message_drop_unknown(ud, message_text) ==
  LET text == lower(message_text)
  IN IF text = lbl_programs THEN Via("handle_message", show_programs(ud))
     ELSE IF text = lbl_subjects
     THEN Via("handle_message", ask_program_for_subjects(ud))
     ELSE IF text = lbl_competencies
     THEN Via("handle_message", ask_program_for_competencies(ud))
     ELSE IF text = lbl_duration THEN Via("handle_message", show_duration(ud))
     ELSE IF text = lbl_info THEN Via("handle_message", ask_program_for_info(ud))
     ELSE IF text = lbl_help THEN Via("handle_message", help_command(ud))
     ELSE IF text = lbl_back
     THEN Res(ud, <<Reply(main_menu_text, get_main_keyboard)>>, "None", "",
              <<"handle_message">>)
     ELSE Res(ud, IF classify(text) = 0 THEN << >>
                  ELSE <<Reply(auto_detect_response(text), NoMarkup)>>,
              "None", "", <<"handle_message", "auto_detect_response">>)

handle_message(ud, message_text) ==
  LET text == lower(message_text)
  IN IF text = lbl_programs THEN Via("handle_message", show_programs(ud))
     ELSE IF text = lbl_subjects
     THEN Via("handle_message", ask_program_for_subjects(ud))
     ELSE IF text = lbl_competencies
     THEN Via("handle_message", ask_program_for_competencies(ud))
     ELSE IF text = lbl_duration THEN Via("handle_message", show_duration(ud))
     ELSE IF text = lbl_info THEN Via("handle_message", ask_program_for_info(ud))
     ELSE IF text = lbl_help THEN Via("handle_message", help_command(ud))
     ELSE IF text = lbl_back
     THEN Res(ud, <<Reply(main_menu_text, get_main_keyboard)>>, "None", "",
              <<"handle_message">>)
     ELSE Res(ud, <<Reply(auto_detect_response(text), NoMarkup)>>, "None", "",
              <<"handle_message", "auto_detect_response">>)

handle_program_selection(ud, program_name) ==
  LET action == IF ud = NoKey THEN "" ELSE ud
      i == find_program(program_name)
      program == programs_data[i]
      r == IF action = "subjects" THEN show_program_subjects(ud, program)
           ELSE IF action = "competencies"
           THEN show_program_competencies(ud, program)
           ELSE show_program_info(ud, program)
  IN IF i = 0
     THEN Res(ud, <<Reply(not_found_text, NoMarkup)>>, "None", "",
              <<"handle_program_selection">>)
     ELSE IF r.raised # ""
     THEN [r EXCEPT !.calls = <<"handle_program_selection">> \o @]
     ELSE [Via("handle_program_selection", r) EXCEPT !.action = ""]

\* mutant: cancel empties the pending action
cancel_clearing(ud) ==
  Res("", <<Reply(cancel_text, ReplyKeyboardRemove)>>, END, "", <<"cancel">>)

cancel(ud) ==
  Res(ud, <<Reply(cancel_text, ReplyKeyboardRemove)>>, END, "", <<"cancel">>)

(***************************************************************************)
(* Handler registration (main) and the dispatch of one update              *)
(***************************************************************************)
CommandHandler(command, callback) ==
  [type |-> "CommandHandler", command |-> command, callback |-> callback,
   filter |-> ""]

MessageHandler(filter, callback) ==
  [type |-> "MessageHandler", command |-> "", callback |-> callback,
   filter |-> filter]

\* an update is a message of a user: a command (/name) or a plain text
CommandUpdate(u, c) == [text |-> << >>, command |-> c, user |-> u]

TextUpdate(u, t) == [text |-> t, command |-> "", user |-> u]

\* filters.Regex('^(...|...)$')
RegexMatches(text) == text \in {RegexAlt1, RegexAlt2}

\* does handler h accept the update
check_update(h, upd) ==
  IF h.type = "CommandHandler" THEN upd.command = h.command
  ELSE /\ upd.command = ""
       /\ \/ h.filter = "TEXT & ~COMMAND"
          \/ h.filter = "Regex" /\ RegexMatches(upd.text)

entry_points == <<CommandHandler("start", "start")>>

states_CHOOSING ==
  <<MessageHandler("TEXT & ~COMMAND", "handle_message"),
    MessageHandler("Regex", "handle_program_selection")>>

fallbacks == <<CommandHandler("cancel", "cancel")>>

\* the handlers added to the application after conv_handler
app_handlers ==
  <<CommandHandler("help", "help_command"),
    CommandHandler("programs", "show_programs"),
    CommandHandler("subjects", "ask_program_for_subjects"),
    CommandHandler("competencies", "ask_program_for_competencies"),
    CommandHandler("duration", "show_duration")>>

\* the index of the first handler of hs that accepts the update, 0 for none
FirstMatch(hs, upd) ==
  LET m == {i \in 1..Len(hs) : check_update(hs[i], upd)}
  IN IF m = {} THEN 0 ELSE CHOOSE i \in m : \A j \in m : i <= j

\* the callback conv_handler chooses in conversation state s, "" when it
\* does not handle the update: entry points only outside a conversation
\* (allow_reentry is off), else the state's handlers, then the fallbacks
conv_handler(s, upd) ==
  LET e == FirstMatch(entry_points, upd)
      c == FirstMatch(states_CHOOSING, upd)
      f == FirstMatch(fallbacks, upd)
  IN IF s = NoConv
     THEN IF e # 0 THEN entry_points[e].callback ELSE ""
     ELSE IF c # 0 THEN states_CHOOSING[c].callback
     ELSE IF f # 0 THEN fallbacks[f].callback
     ELSE ""

\* the handler of the application that gets the update: conv_handler was
\* added first, the command handlers follow in the same group
Route(s, upd) ==
  LET a == FirstMatch(app_handlers, upd)
  IN IF conv_handler(s, upd) # ""
     THEN [callback |-> conv_handler(s, upd), via |-> "conversation"]
     ELSE IF a # 0
     THEN [callback |-> app_handlers[a].callback, via |-> "application"]
     ELSE [callback |-> "", via |-> "none"]

\* running callback cb on the update with the user's user_data['action'] ud
Invoke(cb, ud, upd) ==
  CASE cb = "start" -> start(ud, first_name(upd.user))
    [] cb = "help_command" -> help_command(ud)
    [] cb = "handle_message" -> handle_message(ud, upd.text)
    [] cb = "show_programs" -> show_programs(ud)
    [] cb = "ask_program_for_subjects" -> ask_program_for_subjects(ud)
    [] cb = "ask_program_for_competencies" -> ask_program_for_competencies(ud)
    [] cb = "ask_program_for_info" -> ask_program_for_info(ud)
    [] cb = "handle_program_selection" -> handle_program_selection(ud, upd.text)
    [] cb = "show_duration" -> show_duration(ud)
    [] cb = "cancel" -> cancel(ud)
    [] OTHER -> Res(ud, << >>, "None", "", << >>)

\* the conversation state after a callback of conv_handler returned ret:
\* None keeps the state, END ends the conversation; an exception keeps it
NewState(s, r) ==
  IF r.raised # "" \/ r.ret = "None" THEN s
  ELSE IF r.ret = END THEN NoConv
  ELSE r.ret

\* mutant: the pending action kept in one slot of the bot, not per user
Handle_shared(upd, rt) ==
  LET u == upd.user
  IN \E r \in {Invoke(rt.callback, user_data[u], upd)} :
     /\ conv' = [conv EXCEPT ![u] =
                   IF rt.via = "conversation" THEN NewState(@, r) ELSE @]
     /\ user_data' = [v \in Users |-> r.action]
     /\ out' = r.out
     /\ last' = [ret |-> r.ret, raised |-> r.raised, calls |-> r.calls,
                 callback |-> rt.callback, via |-> rt.via, update |-> upd]
     /\ UNCHANGED <<programs_data, curriculum_data>>

\* one update, handled by the callback rt chose
Handle(upd, rt) ==
  LET u == upd.user
  IN \E r \in {Invoke(rt.callback, user_data[u], upd)} :
     /\ conv' = [conv EXCEPT ![u] =
                   IF rt.via = "conversation" THEN NewState(@, r) ELSE @]
     /\ user_data' = [user_data EXCEPT ![u] = r.action]
     /\ out' = r.out
     /\ last' = [ret |-> r.ret, raised |-> r.raised, calls |-> r.calls,
                 callback |-> rt.callback, via |-> rt.via, update |-> upd]
     /\ UNCHANGED <<programs_data, curriculum_data>>

(***************************************************************************)
(* Inputs                                                                  *)
(***************************************************************************)
Commands ==
  {"start", "help", "programs", "subjects", "competencies", "duration",
   "cancel"}

\* the buttons of the two keyboards and some typed texts
Texts ==
  {BtnPrograms, BtnSubjects, BtnCompetencies, BtnDuration, BtnInfo, BtnHelp,
   BtnBack, RegexAlt1, RegexAlt2, TxtAiLower, TxtHi, TxtXyz,
   TxtKurs, TxtNavyk, TxtSrok, TxtProgram}

Datasets ==
  {<<NoPrograms, NoFrame>>, <<NoPrograms, Frame(RowsD)>>,
   <<Catalog, NoFrame>>, <<Catalog, Frame(<< >>)>>, <<Catalog, Frame(RowsD)>>}

(***************************************************************************)
(* Specification: the bot as main() runs it                                *)
(***************************************************************************)
NoUpdate == [text |-> << >>, command |-> "", user |-> ""]

\* the bot constructed on dataset d, nobody has written yet
Constructed(d) ==
  /\ programs_data = d[1]
  /\ curriculum_data = d[2]
  /\ conv = [u \in Users |-> NoConv]
  /\ user_data = [u \in Users |-> NoKey]
  /\ out = << >>
  /\ last = [ret |-> "None", raised |-> "", calls |-> << >>, callback |-> "",
             via |-> "none", update |-> NoUpdate]

Init == \E d \in Datasets : Constructed(d)

ReceiveCommand(u, c) ==
  Handle(CommandUpdate(u, c), Route(conv[u], CommandUpdate(u, c)))

ReceiveText(u, t) ==
  Handle(TextUpdate(u, t), Route(conv[u], TextUpdate(u, t)))

Next ==
  \E u \in Users :
    \/ \E c \in Commands : ReceiveCommand(u, c)
    \/ \E t \in Texts : ReceiveText(u, t)

Spec == Init /\ [][Next]_vars

(***************************************************************************)
(* Specification: main() from its first line: the bot is constructed from  *)
(* the two files on disk, then the updates are polled                      *)
(***************************************************************************)
\* a file on disk: absent, or present and well-formed with its content, or
\* present and not parseable (JSON cut short; CSV of zero bytes, CSV with
\* rows of differing length)
File(kind, data) == [kind |-> kind, data |-> data]

ProgramFiles ==
  {File("absent", << >>), File("truncated", << >>), File("valid", Catalog)}

CurriculumFiles ==
  {File("absent", << >>), File("empty", << >>), File("ragged", << >>),
   File("valid", Frame(RowsD))}

\* an attribute of the bot that was never assigned
Unset == "<unset>"

\* what a loader did: the value returned, the exception that left it, the
\* calls made
Loaded(ret, raised, calls) == [ret |-> ret, raised |-> raised, calls |-> calls]

\* only FileNotFoundError is caught; json.load's JSONDecodeError propagates
load_programs_data(f) ==
  CASE f.kind = "absent" ->
         Loaded(NoPrograms, "", <<"load_programs_data", "logger.error">>)
    [] f.kind = "valid" -> Loaded(f.data, "", <<"load_programs_data">>)
    [] OTHER -> Loaded("None", "JSONDecodeError", <<"load_programs_data">>)

\* only FileNotFoundError is caught; pd.read_csv's EmptyDataError and
\* ParserError propagate
load_curriculum_data(f) ==
  CASE f.kind = "absent" ->
         Loaded(NoFrame, "", <<"load_curriculum_data", "logger.error">>)
    [] f.kind = "valid" -> Loaded(f.data, "", <<"load_curriculum_data">>)
    [] f.kind = "empty" ->
         Loaded("None", "EmptyDataError", <<"load_curriculum_data">>)
    [] OTHER -> Loaded("None", "ParserError", <<"load_curriculum_data">>)

\* main() entered, nothing constructed yet
InitMain ==
  /\ programs_data = Unset
  /\ curriculum_data = Unset
  /\ conv = [u \in Users |-> NoConv]
  /\ user_data = [u \in Users |-> NoKey]
  /\ out = << >>
  /\ last = [ret |-> "None", raised |-> "", calls |-> <<"main">>,
             callback |-> "main", via |-> "none", update |-> NoUpdate]

\* bot = ITMOTelegramBot(): __init__ runs the two loaders in turn; an
\* exception of the first leaves both attributes unassigned, one of the
\* second leaves curriculum_data unassigned, and either ends main()
ITMOTelegramBot(pf, cf) ==
  LET p == load_programs_data(pf)
      c == load_curriculum_data(cf)
  IN /\ last.callback = "main"
     /\ programs_data' = IF p.raised = "" THEN p.ret ELSE programs_data
     /\ curriculum_data' =
          IF p.raised = "" /\ c.raised = "" THEN c.ret ELSE curriculum_data
     /\ last' = [ret |-> "None",
                 raised |-> IF p.raised # "" THEN p.raised ELSE c.raised,
                 calls |-> <<"__init__">> \o p.calls \o
                           (IF p.raised = "" THEN c.calls ELSE << >>),
                 callback |-> "ITMOTelegramBot", via |-> "main",
                 update |-> NoUpdate]
     /\ UNCHANGED <<conv, user_data, out>>

\* application.run_polling() is reached only with the bot constructed
run_polling ==
  /\ last.callback # "main"
  /\ ~ (last.callback = "ITMOTelegramBot" /\ last.raised # "")
  /\ Next

NextMain ==
  \/ \E pf \in ProgramFiles : \E cf \in CurriculumFiles : ITMOTelegramBot(pf, cf)
  \/ run_polling

SpecMain == InitMain /\ [][NextMain]_vars

(***************************************************************************)
(* Specification: each handler method called on its own                    *)
(***************************************************************************)
Direct(cb) == [callback |-> cb, via |-> "direct"]

CallStart(u) == Handle(CommandUpdate(u, "start"), Direct("start"))

CallHelp(u) == Handle(CommandUpdate(u, "help"), Direct("help_command"))

CallShowPrograms(u) ==
  Handle(CommandUpdate(u, "programs"), Direct("show_programs"))

CallAskSubjects(u) ==
  Handle(CommandUpdate(u, "subjects"), Direct("ask_program_for_subjects"))

CallAskCompetencies(u) ==
  Handle(CommandUpdate(u, "competencies"),
         Direct("ask_program_for_competencies"))

CallAskInfo(u) ==
  Handle(TextUpdate(u, BtnInfo), Direct("ask_program_for_info"))

CallShowDuration(u) ==
  Handle(CommandUpdate(u, "duration"), Direct("show_duration"))

CallCancel(u) == Handle(CommandUpdate(u, "cancel"), Direct("cancel"))

CallHandleMessage(u, t) == Handle(TextUpdate(u, t), Direct("handle_message"))

CallHandleProgramSelection(u, t) ==
  Handle(TextUpdate(u, t), Direct("handle_program_selection"))

NextHandlers ==
  \E u \in Users :
    \/ CallStart(u)
    \/ CallHelp(u)
    \/ CallShowPrograms(u)
    \/ CallAskSubjects(u)
    \/ CallAskCompetencies(u)
    \/ CallAskInfo(u)
    \/ CallShowDuration(u)
    \/ CallCancel(u)
    \/ \E t \in Texts : CallHandleMessage(u, t)
    \/ \E t \in Texts : CallHandleProgramSelection(u, t)

SpecHandlers == Init /\ [][NextHandlers]_vars

(***************************************************************************)
(* Specification: the subjects listing of a programme, on curricula whose  *)
(* rendered text is around a multiple of the chunk size                    *)
(***************************************************************************)
\* length of a one-row subjects text without its subject name
BaseLen == Len(subjects_response(RegexAlt2, RowsLong(0)))

\* subject lengths that put the text up to Slack below or above k chunks
PadLens ==
  {k * CHUNK - BaseLen + d : k \in 1..MaxChunks, d \in (0 - Slack)..Slack}

LongDatasets ==
  {<<Catalog, Frame(RowsD)>>}
  \cup {<<Catalog, Frame(RowsLong(n))>> : n \in PadLens}

InitSubjects == \E d \in LongDatasets : Constructed(d)

\* show_program_subjects(update, program) for the i-th catalog programme
CallShowProgramSubjects(u, i) ==
  LET r == show_program_subjects(user_data[u], programs_data[i])
  IN /\ out' = r.out
     /\ last' = [ret |-> r.ret, raised |-> r.raised, calls |-> r.calls,
                 callback |-> "show_program_subjects", via |-> "direct",
                 update |-> TextUpdate(u, programs_data[i].program_name)]
     /\ UNCHANGED <<programs_data, curriculum_data, conv, user_data>>

NextSubjects ==
  \E u \in Users : \E i \in 1..Len(programs_data) :
    CallShowProgramSubjects(u, i)

SpecSubjects == InitSubjects /\ [][NextSubjects]_vars

(***************************************************************************)
(* Specification: the subjects listing on curricula whose rows come in     *)
(* every order, with repeated rows and semesters of one and two digits     *)
(***************************************************************************)
Semesters == {1, 2, 10}

\* rows of the first programme in three semesters, and a row of the second
SomeRows ==
  {Row(RegexAlt1, sem, subj, 3) : sem \in Semesters, subj \in {SubjA, SubjB}}
  \cup {Row(RegexAlt2, 1, SubjC, 6)}

\* the curricula of one to MaxRows of these rows, in any order
RowSeqs == UNION {[1..n -> SomeRows] : n \in 1..MaxRows}

InitGrouping == \E rows \in RowSeqs : Constructed(<<Catalog, Frame(rows)>>)

SpecGrouping == InitGrouping /\ [][NextSubjects]_vars

(***************************************************************************)
(* Specification: the two lookup methods, find_program and                 *)
(* auto_detect_response, called on their own                               *)
(***************************************************************************)
\* str.upper() on one code point, to write the same text in another case
UpperChar(c) ==
  IF c \in 97..122 \/ c \in 1072..1103 THEN c - 32
  ELSE IF c \in 1104..1119 THEN c - 80
  ELSE c

upper(s) ==
  IF Len(s) = 0 THEN << >> ELSE [i \in 1..Len(s) |-> UpperChar(s[i])]

\* the non-empty slices s[a:b]
Substrings(s) ==
  {SubSeq(s, p[1], p[2]) :
     p \in {q \in (1..Len(s)) \X (1..Len(s)) : q[1] <= q[2]}}

\* texts asked of find_program: every slice of the two programme names as it
\* is written, in lower case and in upper case, the empty text, and a text
\* that occurs in neither name
Queries ==
  LET slices == Substrings(RegexAlt1) \cup Substrings(RegexAlt2)
  IN slices \cup {lower(q) : q \in slices} \cup {upper(q) : q \in slices}
     \cup {<< >>, TxtXyz}

\* the keywords of the five rules and some words that are none
Words ==
  LET kws(rule) == {rule[k] : k \in 1..Len(rule)}
  IN kws(kw_greeting) \cup kws(kw_program) \cup kws(kw_subject)
     \cup kws(kw_competency) \cup kws(kw_duration)
     \cup {TxtXyz, TxtHi, TxtKurs, TxtProgram, TxtProduct}

\* texts given to auto_detect_response: nothing, one word, two words
Phrases ==
  {<< >>} \cup Words \cup {w[1] \o <<32>> \o w[2] : w \in Words \X Words}

\* the catalog in both load orders, and no catalog
Catalogs == {NoPrograms, Catalog, <<P_PM, P_AI>>}

\* the bot constructed on a catalog, and the text a caller is about to pass
InitLookup ==
  \E c \in Catalogs : \E t \in Queries \cup Phrases :
    /\ programs_data = c
    /\ curriculum_data = NoFrame
    /\ conv = [u \in Users |-> NoConv]
    /\ user_data = [u \in Users |-> NoKey]
    /\ out = << >>
    /\ last = [ret |-> "None", raised |-> "", calls |-> << >>, callback |-> "",
               via |-> "none", update |-> TextUpdate("", t)]

\* self.find_program(program_name); the value returned is the index of the
\* record, 0 for None
CallFindProgram(program_name) ==
  /\ out' = << >>
  /\ last' = [ret |-> find_program(program_name), raised |-> "",
              calls |-> <<"find_program">>, callback |-> "find_program",
              via |-> "direct", update |-> TextUpdate("", program_name)]
  /\ UNCHANGED <<programs_data, curriculum_data, conv, user_data>>

\* self.auto_detect_response(text); the value returned is the response
CallAutoDetectResponse(text) ==
  /\ out' = << >>
  /\ last' = [ret |-> auto_detect_response(text), raised |-> "",
              calls |-> <<"auto_detect_response">>,
              callback |-> "auto_detect_response",
              via |-> "direct", update |-> TextUpdate("", text)]
  /\ UNCHANGED <<programs_data, curriculum_data, conv, user_data>>

NextLookup ==
  \/ CallFindProgram(last.update.text)
  \/ CallAutoDetectResponse(last.update.text)

SpecLookup == InitLookup /\ [][NextLookup]_vars

TypeOK ==
  /\ conv \in [Users -> {NoConv, CHOOSING}]
  /\ user_data \in [Users -> Kinds \cup {NoKey, ""}]
  /\ last.raised \in {"", "KeyError"}

(***************************************************************************)
(* Vocabulary of the properties                                            *)
(***************************************************************************)
\* the dialog phases of the specification, read off the bot's state
MainMenu(u) == conv[u] = CHOOSING /\ user_data[u] \in {NoKey, ""}

Awaiting(u, kind) == conv[u] = CHOOSING /\ user_data[u] = kind

\* the methods that ran for the last update
Ran == {last.calls[i] : i \in 1..Len(last.calls)}

RendererOf(kind) ==
  CASE kind = "subjects" -> "show_program_subjects"
    [] kind = "competencies" -> "show_program_competencies"
    [] OTHER -> "show_program_info"

\* the core action each command stands for
CoreAction(c) ==
  CASE c = "start" -> "start"
    [] c = "help" -> "help_command"
    [] c = "programs" -> "show_programs"
    [] c = "subjects" -> "ask_program_for_subjects"
    [] c = "competencies" -> "ask_program_for_competencies"
    [] c = "duration" -> "show_duration"
    [] OTHER -> "cancel"

MenuLabels ==
  {lbl_programs, lbl_subjects, lbl_competencies, lbl_duration, lbl_info,
   lbl_help, lbl_back}

\* the texts of the replies, joined in order
Joined(replies) == Cat([k \in 1..Len(replies) |-> replies[k].text])

(***************************************************************************)
(* Properties                                                              *)
(***************************************************************************)
\* C1: in a started conversation with a pending action of some kind, a text
\* that resolves to a catalog programme makes the bot run the query of that
\* kind and reply, and leaves the conversation at the main menu with no
\* pending action -- for the message as the registered handlers dispatch it.
SelectionCompletesQuery ==
  [][\A u \in Users : \A t \in Texts :
       (/\ last'.update = TextUpdate(u, t)
        /\ conv[u] = CHOOSING
        /\ user_data[u] \in Kinds
        /\ find_program(t) # 0)
       => (/\ RendererOf(user_data[u]) \in Ran'
           /\ Len(out') >= 1
           /\ MainMenu(u)')]_vars

\* C2: with a selection pending for a kind, a text that resolves to no
\* catalog programme is answered by the "not found, choose from the list"
\* prompt and leaves the pending action and the conversation as they were.
UnresolvedTextReprompts ==
  [][\A u \in Users : \A t \in Texts :
       (/\ last'.update = TextUpdate(u, t)
        /\ conv[u] = CHOOSING
        /\ user_data[u] \in Kinds
        /\ find_program(t) = 0)
       => (/\ out' = <<Reply(not_found_text, NoMarkup)>>
           /\ user_data'[u] = user_data[u]
           /\ conv'[u] = conv[u])]_vars

\* C3: whatever state the user is in, after a cancel command the user has no
\* pending action and the reply keyboard has been removed.
CancelClearsPending ==
  [][\A u \in Users :
       last'.update = CommandUpdate(u, "cancel")
       => (/\ user_data'[u] \in {NoKey, ""}
           /\ \E k \in 1..Len(out') :
                out'[k].reply_markup = ReplyKeyboardRemove)]_vars

\* C4: after /start was handled the user is at the main menu with no pending
\* action, whatever was pending before.
StartResetsPending ==
  [][\A u \in Users :
       (/\ last'.update = CommandUpdate(u, "start")
        /\ last'.callback = "start")
       => MainMenu(u)']_vars

\* C5: at the main menu, a message equal to the subjects, competencies or
\* info label sets the pending action to exactly that kind and replies with
\* the programme-choice keyboard; no query runs in that turn.
LabelOpensSelection ==
  [][\A u \in Users : \A kind \in Kinds :
       (/\ MainMenu(u)
        /\ last'.update =
             TextUpdate(u, CASE kind = "subjects" -> BtnSubjects
                             [] kind = "competencies" -> BtnCompetencies
                             [] OTHER -> BtnInfo))
       => (/\ user_data'[u] = kind
           /\ conv'[u] = CHOOSING
           /\ Len(out') = 1
           /\ out'[1].reply_markup = get_programs_keyboard
           /\ out'[1].text =
                (CASE kind = "subjects" -> ask_subjects_text
                   [] kind = "competencies" -> ask_competencies_text
                   [] OTHER -> ask_info_text)
           /\ Ran' \subseteq
                {"handle_message", "ask_program_for_subjects",
                 "ask_program_for_competencies", "ask_program_for_info"})]_vars

\* a label tapped at the main menu has opened the selection of its kind
LabelOpenedSelection ==
  \E u \in Users :
    /\ last.update = TextUpdate(u, BtnInfo)
    /\ last.via = "conversation"
    /\ Awaiting(u, "info")
    /\ out = <<Reply(ask_info_text, get_programs_keyboard)>>

\* C6: a text of a started conversation that is no menu label goes through
\* keyword classification and changes neither the conversation state nor the
\* pending action; greeting and unknown get their canned reply, a subjects or
\* competencies request gets only the "use the menu" instruction.
ClassifiedTextKeepsState ==
  [][\A u \in Users : \A t \in Texts :
       (/\ last'.update = TextUpdate(u, t)
        /\ conv[u] = CHOOSING
        /\ lower(t) \notin MenuLabels)
       => (/\ conv'[u] = conv[u]
           /\ user_data'[u] = user_data[u]
           /\ "auto_detect_response" \in Ran'
           /\ Len(out') = 1
           /\ out'[1].reply_markup = NoMarkup
           /\ classify(t) = 1 => out'[1].text = greeting_reply
           /\ classify(t) = 0 => out'[1].text = unknown_reply
           /\ classify(t) = 3 => out'[1].text = use_menu_subjects
           /\ classify(t) = 4 => out'[1].text = use_menu_competencies)]_vars

\* a typed subjects request was answered with the instruction while another
\* kind stayed pending
SubjectsRequestClassified ==
  \E u \in Users :
    /\ last.update = TextUpdate(u, TxtKurs)
    /\ "auto_detect_response" \in Ran
    /\ Awaiting(u, "competencies")
    /\ out = <<Reply(use_menu_subjects, NoMarkup)>>

\* C8: a turn of one user leaves every other user's pending action and
\* conversation state alone, and its replies and the acting user's new state
\* are those the turn has on that user's own state.
SessionsIsolated ==
  [][\A u \in Users :
       /\ last'.update.user # u
          => user_data'[u] = user_data[u] /\ conv'[u] = conv[u]
       /\ last'.update.user = u
          => \E r \in {Invoke(last'.callback, user_data[u], last'.update)} :
               out' = r.out /\ user_data'[u] = r.action]_vars

\* the two users have different kinds pending, the second asked last
TwoSelectionsPending ==
  /\ user_data["u1"] = "subjects"
  /\ user_data["u2"] = "info"
  /\ last.update.user = "u2"
  /\ last.callback = "ask_program_for_info"

\* C9: each of the seven commands, whenever it is received, runs exactly its
\* own core action and never the keyword classification; none is ignored.
CommandsAlwaysHandled ==
  [][\A u \in Users : \A c \in Commands :
       last'.update = CommandUpdate(u, c)
       => (/\ last'.callback = CoreAction(c)
           /\ last'.calls = <<CoreAction(c)>>)]_vars

\* C7: with the programmes or the curriculum missing, every data-dependent
\* action ends with a reply and raises nothing.
MissingDataDegrades ==
  (/\ programs_data = NoPrograms \/ curriculum_data = NoFrame
   /\ Ran \cap {"show_programs", "show_duration", "show_program_subjects",
                "show_program_competencies", "show_program_info"} # {})
  => (last.raised = "" /\ Len(out) >= 1)

\* C10: the messages of a subjects listing, joined in order, are the rendered
\* text; every message but the last has exactly 4000 characters, none is
\* empty, and a text of at most 4000 characters is sent as one message.
ChunkingExact ==
  LET program_name == last.update.text
      response == subjects_response(program_name, subjects_df(program_name))
  IN (last.callback = "show_program_subjects"
      /\ Len(subjects_df(program_name)) > 0)
     => (/\ Joined(out) = response
         /\ \A k \in 1..(Len(out) - 1) : Len(out[k].text) = CHUNK
         /\ \A k \in 1..Len(out) : Len(out[k].text) > 0
         /\ Len(response) <= CHUNK => Len(out) = 1)

\* a listing one character over two chunks went out in three messages
ListingSplit ==
  /\ last.callback = "show_program_subjects"
  /\ Len(out) = 3
  /\ Len(out[3].text) = 1

\* the rules of the classifier in the order the specification fixes:
\* greeting, programme, subject, competency, duration
Rules == <<kw_greeting, kw_program, kw_subject, kw_competency, kw_duration>>

\* the outcome of each rule, UNKNOWN's for no rule
Outcome(k) ==
  CASE k = 1 -> greeting_reply
    [] k = 2 -> get_programs_list_text
    [] k = 3 -> use_menu_subjects
    [] k = 4 -> use_menu_competencies
    [] k = 5 -> get_duration_text
    [] OTHER -> unknown_reply

\* the rules that have a keyword occurring in the text, case ignored
Matching(text) ==
  {k \in 1..Len(Rules) :
     \E w \in 1..Len(Rules[k]) :
       \E a \in 0..(Len(text) - Len(Rules[k][w])) :
         \A j \in 1..Len(Rules[k][w]) : LowerChar(text[a + j]) = Rules[k][w][j]}

\* C11: auto_detect_response answers every text with the outcome of the first
\* rule, in the order greeting, programme, subject, competency, duration,
\* that has a keyword in the text, and with UNKNOWN when no rule has one.
ClassifierFirstRuleWins ==
  last.callback = "auto_detect_response"
  => LET m == Matching(last.update.text)
     IN last.ret = IF m = {} THEN unknown_reply
                   ELSE Outcome(CHOOSE k \in m : \A j \in m : k <= j)

\* a text with a keyword of the greeting rule and one of a later rule was
\* answered by the greeting
TwoRulesMatched ==
  /\ last.callback = "auto_detect_response"
  /\ Cardinality(Matching(last.update.text)) >= 2
  /\ last.ret = greeting_reply

\* q is a slice of name, up to the case of its letters
CaseVariantSubstring(q, name) ==
  \E a \in 0..(Len(name) - Len(q)) :
    \A j \in 1..Len(q) : LowerChar(q[j]) = LowerChar(name[a + j])

\* C12: find_program given a non-empty case-variant substring of the name of
\* a catalog programme returns that programme's record.
SubstringFindsItsProgram ==
  last.callback = "find_program"
  => \A i \in 1..Len(programs_data) :
       (/\ Len(last.update.text) > 0
        /\ CaseVariantSubstring(last.update.text,
                                programs_data[i].program_name))
       => last.ret = i

\* C13: find_program returns the first record in load order whose name
\* contains the text, case ignored, and None exactly when no name contains it.
FindProgramFirstMatch ==
  last.callback = "find_program"
  => LET hit(i) == CaseVariantSubstring(last.update.text,
                                        programs_data[i].program_name)
     IN /\ last.ret = 0 <=> ~ \E i \in 1..Len(programs_data) : hit(i)
        /\ last.ret # 0
           => hit(last.ret) /\ \A j \in 1..(last.ret - 1) : ~ hit(j)

\* a text that occurs in both names found the record loaded first
FirstOfTwoMatches ==
  /\ last.callback = "find_program"
  /\ Len(last.update.text) > 0
  /\ Len(programs_data) = 2
  /\ \A i \in 1..2 : CaseVariantSubstring(last.update.text,
                                          programs_data[i].program_name)
  /\ programs_data[1] = P_PM
  /\ last.ret = 1

\* the lines of a text, split at the newline characters
RECURSIVE Lines(_)
Lines(s) ==
  IF \A k \in 1..Len(s) : s[k] # 10 THEN <<s>>
  ELSE LET k == CHOOSE i \in 1..Len(s) :
                  s[i] = 10 /\ \A j \in 1..(i - 1) : s[j] # 10
       IN <<SubSeq(s, 1, k - 1)>> \o Lines(SubSeq(s, k + 1, Len(s)))

\* a text without its last character (the newline that ends a line)
Chop(s) == SubSeq(s, 1, Len(s) - 1)

\* C14: the listing read back line by line: the semester headers come in
\* numerically ascending order, and the subject lines under the header of a
\* semester are, with multiplicity, the selected rows of that semester -- no
\* row is dropped, repeated or put under another semester.
GroupedBySemester ==
  (last.callback = "show_program_subjects"
   /\ Len(subjects_df(last.update.text)) > 0)
  => LET df == subjects_df(last.update.text)
         ls == Lines(Joined(out))
         SemOf(l) == {n \in Semesters :
                        l = Cat(<<semester_1, Str(n), Chop(semester_2)>>)}
         heads == {k \in 1..Len(ls) : SemOf(ls[k]) # {}}
         first == CHOOSE h \in heads : \A g \in heads : h <= g
         items == {k \in 1..Len(ls) :
                     k \notin heads /\ k > first /\ Len(ls[k]) > 0}
         group(k) ==
           LET h == CHOOSE h \in heads :
                      h < k /\ \A g \in heads : g < k => g <= h
           IN CHOOSE n \in SemOf(ls[h]) : TRUE
         line(r) == Chop(Cat(<<row_1, r.subject, row_2, Str(r.credits), row_3>>))
         shown == {<<group(k), ls[k]>> : k \in items}
         asked == {<<df[i].semester, line(df[i])>> : i \in 1..Len(df)}
     IN /\ heads # {}
        /\ \A h \in heads : \A g \in heads :
             h < g => (CHOOSE n \in SemOf(ls[h]) : TRUE)
                      < (CHOOSE n \in SemOf(ls[g]) : TRUE)
        /\ \A x \in shown \cup asked :
             Cardinality({k \in items : <<group(k), ls[k]>> = x})
             = Cardinality({i \in 1..Len(df) :
                              <<df[i].semester, line(df[i])>> = x})

\* rows given in the semester order 10, 2, 2 were listed
RowsOutOfOrderListed ==
  /\ last.callback = "show_program_subjects"
  /\ last.update.text = RegexAlt1
  /\ Len(curriculum_data.rows) = 3
  /\ curriculum_data.rows[1] = Row(RegexAlt1, 10, SubjA, 3)
  /\ curriculum_data.rows[2] = Row(RegexAlt1, 2, SubjB, 3)
  /\ curriculum_data.rows[3] = Row(RegexAlt1, 2, SubjB, 3)
  /\ Len(out) = 1

\* C15: constructing the bot never raises: with a file absent or malformed
\* both loaders run to their end and return, so the bot is constructed.
LoadersNeverRaise ==
  last.callback = "ITMOTelegramBot"
  => (/\ last.raised = ""
      /\ {"load_programs_data", "load_curriculum_data"} \subseteq Ran)

\* C16: the 'back' label in a started conversation re-renders the main menu
\* and leaves the user at the main menu with no selection pending, whatever
\* was pending before; sent again, it changes nothing.
BackReturnsToMainMenu ==
  [][\A u \in Users :
       (/\ last'.update = TextUpdate(u, BtnBack)
        /\ conv[u] = CHOOSING)
       => (/\ out' = <<Reply(main_menu_text, get_main_keyboard)>>
           /\ MainMenu(u)'
           /\ (last.update = TextUpdate(u, BtnBack) /\ last.via = "conversation")
              => (user_data' = user_data /\ conv' = conv /\ out' = out))]_vars

\* the method a menu label stands for; the 'back' branch is handle_message's
LabelAction(label) ==
  CASE label = lbl_programs -> "show_programs"
    [] label = lbl_subjects -> "ask_program_for_subjects"
    [] label = lbl_competencies -> "ask_program_for_competencies"
    [] label = lbl_duration -> "show_duration"
    [] label = lbl_info -> "ask_program_for_info"
    [] label = lbl_help -> "help_command"
    [] OTHER -> "handle_message"

\* C17: a message that is a menu label once lower-cased never reaches
\* auto_detect_response, and in a started conversation it runs the action of
\* that label and nothing else, also when the label contains a keyword.
LabelsBypassClassifier ==
  [][\A u \in Users : \A t \in Texts :
       (/\ last'.update = TextUpdate(u, t)
        /\ [i \in 1..Len(t) |-> LowerChar(t[i])] \in MenuLabels)
       => (/\ "auto_detect_response" \notin Ran'
           /\ conv[u] = CHOOSING
              => Ran' = {"handle_message",
                         LabelAction([i \in 1..Len(t) |-> LowerChar(t[i])])})]_vars

\* the programme-list label, which contains a keyword of the programme rule,
\* was answered by the programme list
KeywordLabelHandled ==
  \E u \in Users :
    /\ last.update = TextUpdate(u, BtnPrograms)
    /\ last.callback = "handle_message"
    /\ 2 \in Matching(BtnPrograms)
    /\ "show_programs" \in Ran
    /\ Len(out) = 1

\* C18: every text message of a started conversation gets at least one reply
\* in its turn, and more than one only when it is a subjects listing whose
\* text is longer than 4000 characters.
EveryTextAnswered ==
  [][\A u \in Users : \A t \in Texts :
       (/\ last'.update = TextUpdate(u, t)
        /\ conv[u] = CHOOSING)
       => (/\ Len(out') >= 1
           /\ Len(out') > 1
              => (/\ "show_program_subjects" \in Ran'
                  /\ Len(Joined(out')) > CHUNK))]_vars

\* a text no rule matches was answered in a started conversation
UnknownTextAnswered ==
  \E u \in Users :
    /\ last.update = TextUpdate(u, TxtXyz)
    /\ last.via = "conversation"
    /\ conv[u] = CHOOSING
    /\ out = <<Reply(unknown_reply, NoMarkup)>>

\* the method that asks for the programme of a query of a kind
AskOf(kind) ==
  CASE kind = "subjects" -> "ask_program_for_subjects"
    [] kind = "competencies" -> "ask_program_for_competencies"
    [] OTHER -> "ask_program_for_info"

\* C19: a user's pending action is always unset, empty or one of the three
\* kinds; a request of a kind sets it to that kind whatever was pending; and
\* it goes from a kind to empty only in a programme selection of that user
\* whose text resolves to a programme.
PendingSlotDiscipline ==
  [][\A u \in Users :
       /\ user_data'[u] \in Kinds \cup {NoKey, ""}
       /\ \A kind \in Kinds :
            (last'.update.user = u /\ AskOf(kind) \in Ran')
            => user_data'[u] = kind
       /\ (user_data'[u] # user_data[u] /\ user_data'[u] \notin Kinds)
          => (/\ last'.update.user = u
              /\ last'.callback = "handle_program_selection"
              /\ \E i \in 1..Len(programs_data) :
                   CaseVariantSubstring(last'.update.text,
                                        programs_data[i].program_name))]_vars

\* a pending competencies query was completed and the slot emptied
SlotEmptiedBySelection ==
  \E u \in Users :
    /\ last.update.user = u
    /\ last.callback = "handle_program_selection"
    /\ "show_program_competencies" \in Ran
    /\ user_data[u] = ""

\* C20: handle_program_selection on a text that resolves to a programme runs
\* exactly one renderer, the one of the pending action (the info card for
\* 'info', for an empty and for an unset action), and leaves the pending
\* action empty.
SelectionDispatchesOnPending ==
  [][\A u \in Users : \A t \in Texts :
       (/\ last'.update = TextUpdate(u, t)
        /\ last'.callback = "handle_program_selection"
        /\ find_program(t) # 0)
       => (/\ Ran' \cap {"show_program_subjects", "show_program_competencies",
                         "show_program_info"}
              = {RendererOf(user_data[u])}
           /\ Len(out') >= 1
           /\ user_data'[u] = "")]_vars
====
